---- MODULE Spec2Model ----
(***************************************************************************)
(* Yacht Propulsion Selector: the sizing and selection engine of           *)
(* src/app.py (estimate_total_power_kw, choose_target_prop_rpm,            *)
(* nearest_ratio, select_propulsion) over the shipped engine and gearbox   *)
(* catalogs.                                                               *)
(*                                                                         *)
(* Numbers.  A Python float is modelled as a decimal floating-point number *)
(* [m, e] of value m * 10^e with a nine-digit mantissa (m = 0, or          *)
(* 10^8 <= |m| < 10^9).  Every arithmetic operation returns the exact      *)
(* result rounded half-to-even to nine digits, the way IEEE-754 rounds     *)
(* every operation to 53 bits.  Nine digits hold every literal of the      *)
(* source exactly (1.34102209 is the widest).                              *)
(*                                                                         *)
(* Strings.  A Python str is a sequence of one-character strings, so that  *)
(* str.lower() and str.strip() are computed, not assumed.                  *)
(***************************************************************************)
EXTENDS Integers, Sequences, FiniteSets, TLC

----------------------------------------------------------------------------
(* Decimal floating point                                                  *)

MantHi == 10^9
MantLo == 10^8

Zero == [m |-> 0, e |-> 0]

IAbs(n) == IF n < 0 THEN -n ELSE n

ISign(n) == IF n < 0 THEN -1 ELSE IF n = 0 THEN 0 ELSE 1

\* Number of decimal digits of n, 0 < n < 2^31.
Digits(n) ==
  IF n < 10 THEN 1 ELSE IF n < 100 THEN 2 ELSE IF n < 1000 THEN 3
  ELSE IF n < 10000 THEN 4 ELSE IF n < 100000 THEN 5
  ELSE IF n < 1000000 THEN 6 ELSE IF n < 10000000 THEN 7
  ELSE IF n < 100000000 THEN 8 ELSE IF n < 1000000000 THEN 9 ELSE 10

\* How the discarded part compares with half a unit in the last place:
\* 0 nothing discarded, 1 below half, 2 exactly half, 3 above half.
Cls(rem, half, sticky) ==
  IF rem > half THEN 3
  ELSE IF rem = half THEN (IF sticky THEN 3 ELSE 2)
  ELSE IF rem = 0 /\ ~sticky THEN 0 ELSE 1

\* Round the nine-digit magnitude q half-to-even and renormalise.
RoundHE(s, q, cls, e) ==
  LET q1 == IF cls = 3 \/ (cls = 2 /\ q % 2 = 1) THEN q + 1 ELSE q
  IN  IF q1 = MantHi THEN [m |-> s * MantLo, e |-> e + 1]
      ELSE [m |-> s * q1, e |-> e]

\* The exact integer s * n * 10^e, 0 < n < 10^9.
NormInt(s, n, e) ==
  LET k == 9 - Digits(n)
  IN  [m |-> s * n * 10^k, e |-> e - k]

\* float(n) of a Python int.
FromInt(n) ==
  IF n = 0 THEN Zero
  ELSE IF IAbs(n) >= MantHi
       THEN RoundHE(ISign(n), IAbs(n) \div 10, Cls(IAbs(n) % 10, 5, FALSE), 1)
       ELSE NormInt(ISign(n), IAbs(n), 0)

\* A decimal literal n / 10^k of the source, e.g. Lit(220462, 2) = 2204.62.
Lit(n, k) == IF n = 0 THEN Zero ELSE NormInt(ISign(n), IAbs(n), -k)

FNeg(a) == [m |-> -a.m, e |-> a.e]

FAbs(a) == [m |-> IAbs(a.m), e |-> a.e]

FLt(a, b) ==
  IF ISign(a.m) # ISign(b.m) THEN ISign(a.m) < ISign(b.m)
  ELSE IF a.m = 0 THEN FALSE
  ELSE IF a.m > 0 THEN a.e < b.e \/ (a.e = b.e /\ a.m < b.m)
  ELSE a.e > b.e \/ (a.e = b.e /\ a.m < b.m)

FLe(a, b) == ~FLt(b, a)

\* Python's min(a, b) and max(a, b): the first argument wins a tie.
FMin(a, b) == IF FLt(b, a) THEN b ELSE a

FMax(a, b) == IF FLt(a, b) THEN b ELSE a

FMul(a, b) ==
  IF a.m = 0 \/ b.m = 0 THEN Zero
  ELSE
    LET x  == IAbs(a.m)
        y  == IAbs(b.m)
        x0 == x % 1000
        x1 == (x \div 1000) % 1000
        x2 == x \div 1000000
        y0 == y % 1000
        y1 == (y \div 1000) % 1000
        y2 == y \div 1000000
        c0 == x0 * y0
        c1 == x0 * y1 + x1 * y0 + (c0 \div 1000)
        c2 == x0 * y2 + x1 * y1 + x2 * y0 + (c1 \div 1000)
        c3 == x1 * y2 + x2 * y1 + (c2 \div 1000)
        c4 == x2 * y2 + (c3 \div 1000)
        lo == (c2 % 1000) * 1000000 + (c1 % 1000) * 1000 + (c0 % 1000)
        hi == c4 * 1000 + (c3 % 1000)
        s  == ISign(a.m) * ISign(b.m)
        e  == a.e + b.e
    IN  IF hi >= MantLo
        THEN RoundHE(s, hi, Cls(lo, 5 * 10^8, FALSE), e + 9)
        ELSE RoundHE(s, hi * 10 + (lo \div 10^8),
                     Cls(lo % 10^8, 5 * 10^7, FALSE), e + 8)

\* <<floor(10 r / d), 10 r mod d>> for 0 <= r < d < 10^9, by ten additions
\* (10 * r itself need not fit the machine integer).
RECURSIVE AddTimes(_, _, _, _, _)
AddTimes(acc, cnt, r, d, k) ==
  IF k = 0 THEN <<cnt, acc>>
  ELSE IF acc + r >= d THEN AddTimes(acc + r - d, cnt + 1, r, d, k - 1)
       ELSE AddTimes(acc + r, cnt, r, d, k - 1)

\* n more quotient digits of the long division by d.
RECURSIVE LongDiv(_, _, _, _)
LongDiv(q, r, d, n) ==
  IF n = 0 THEN <<q, r>>
  ELSE LET s == AddTimes(0, 0, r, d, 10)
       IN  LongDiv(q * 10 + s[1], s[2], d, n - 1)

\* a / b, b nonzero.
FDiv(a, b) ==
  IF a.m = 0 THEN Zero
  ELSE
    LET x  == IAbs(a.m)
        y  == IAbs(b.m)
        ge == x >= y
        qr == IF ge THEN LongDiv(x \div y, x % y, y, 8) ELSE LongDiv(0, x, y, 9)
        e  == a.e - b.e - (IF ge THEN 8 ELSE 9)
    IN  RoundHE(ISign(a.m) * ISign(b.m), qr[1], Cls(2 * qr[2], y, FALSE), e)

\* The magnitude hi + lo / 10^9 (plus a little, when sticky) in units of 10^e.
Normalise(s, hi, lo, st, e) ==
  IF hi >= MantHi
  THEN LET dig == hi % 10
       IN  RoundHE(s, hi \div 10,
                   IF dig > 5 THEN 3
                   ELSE IF dig = 5 THEN (IF lo = 0 /\ ~st THEN 2 ELSE 3)
                   ELSE IF dig = 0 /\ lo = 0 /\ ~st THEN 0 ELSE 1,
                   e + 1)
  ELSE IF hi >= MantLo THEN RoundHE(s, hi, Cls(lo, 5 * 10^8, st), e)
  ELSE IF hi = 0 THEN (IF lo = 0 THEN Zero ELSE NormInt(s, lo, e - 9))
  ELSE LET k == 9 - Digits(hi)
       IN  RoundHE(s, hi * 10^k + (lo \div 10^(9 - k)),
                   Cls(lo % 10^(9 - k), 5 * 10^(8 - k), st), e - k)

\* a + b for nonzero a, b with a.e >= b.e.
AddAligned(a, b) ==
  LET d  == a.e - b.e
      x  == IAbs(a.m)
      y  == IAbs(b.m)
      yh == IF d <= 9 THEN y \div 10^d ELSE 0
      yl == IF d <= 9 THEN (y % 10^d) * 10^(9 - d)
            ELSE IF d <= 18 THEN y \div 10^(d - 9) ELSE 0
      st == IF d <= 9 THEN FALSE
            ELSE IF d <= 18 THEN y % 10^(d - 9) # 0 ELSE TRUE
      sub == yl + (IF st THEN 1 ELSE 0)
  IN  IF ISign(a.m) = ISign(b.m) THEN Normalise(ISign(a.m), x + yh, yl, st, a.e)
      ELSE IF d = 0
           THEN (IF a.m + b.m = 0 THEN Zero
                 ELSE NormInt(ISign(a.m + b.m), IAbs(a.m + b.m), a.e))
           ELSE IF sub = 0 THEN Normalise(ISign(a.m), x - yh, 0, st, a.e)
                ELSE Normalise(ISign(a.m), x - yh - 1, MantHi - sub, st, a.e)

FAdd(a, b) ==
  IF a.m = 0 THEN b
  ELSE IF b.m = 0 THEN a
  ELSE IF a.e >= b.e THEN AddAligned(a, b) ELSE AddAligned(b, a)

FSub(a, b) == FAdd(a, FNeg(b))

----------------------------------------------------------------------------
(* Python values                                                           *)

\* round(x, nd) for nd >= 0: x to a multiple of 10^-nd, half-to-even.
FRound(x, nd) ==
  IF x.m = 0 \/ x.e >= -nd THEN x
  ELSE LET k == -nd - x.e
       IN  IF k >= 10 THEN Zero
           ELSE LET q  == IAbs(x.m) \div 10^k
                    c  == Cls(IAbs(x.m) % 10^k, 5 * 10^(k - 1), FALSE)
                    q1 == IF c = 3 \/ (c = 2 /\ q % 2 = 1) THEN q + 1 ELSE q
                IN  IF q1 = 0 THEN Zero ELSE NormInt(ISign(x.m), q1, -nd)

\* int(x): truncation toward zero.
FInt(x) ==
  IF x.e >= 0 THEN x.m * 10^x.e
  ELSE IF -x.e >= 10 THEN 0
  ELSE ISign(x.m) * (IAbs(x.m) \div 10^(-x.e))

\* None, and an int that is present, of the type  int | None.
None == <<>>

Some(n) == <<n>>

UpperCase == <<"A", "B", "C", "D", "E", "F", "G", "H", "I", "J", "K", "L", "M",
               "N", "O", "P", "Q", "R", "S", "T", "U", "V", "W", "X", "Y", "Z">>

LowerCase == <<"a", "b", "c", "d", "e", "f", "g", "h", "i", "j", "k", "l", "m",
               "n", "o", "p", "q", "r", "s", "t", "u", "v", "w", "x", "y", "z">>

LowerChar(c) ==
  IF \E i \in 1..26 : UpperCase[i] = c
  THEN LowerCase[CHOOSE i \in 1..26 : UpperCase[i] = c]
  ELSE c

\* str.lower()
StrLower(s) == [i \in 1..Len(s) |-> LowerChar(s[i])]

IsSpace(c) == c \in {" ", "\t", "\n", "\r"}

RECURSIVE LStrip(_)
LStrip(s) == IF s # <<>> /\ IsSpace(Head(s)) THEN LStrip(Tail(s)) ELSE s

RECURSIVE RStrip(_)
RStrip(s) ==
  IF s # <<>> /\ IsSpace(s[Len(s)]) THEN RStrip(SubSeq(s, 1, Len(s) - 1)) ELSE s

\* str.strip()
StrStrip(s) == RStrip(LStrip(s))

\* The string literals of the source.
S_displacement == <<"d", "i", "s", "p", "l", "a", "c", "e", "m", "e", "n", "t">>

S_planing == <<"p", "l", "a", "n", "i", "n", "g">>

S_semi_displacement == <<"s", "e", "m", "i", "-", "d", "i", "s", "p", "l", "a", "c", "e", "m", "e", "n", "t">>

S_semi == <<"s", "e", "m", "i">>

S_semi_space_displacement == <<"s", "e", "m", "i", " ", "d", "i", "s", "p", "l", "a", "c", "e", "m", "e", "n", "t">>

S_diesel == <<"d", "i", "e", "s", "e", "l">>

----------------------------------------------------------------------------
(* 1) Catalogs                                                             *)

ENGINE_CATALOG == <<
  [engine_model |-> "D6-480", manufacturer |-> "Volvo Penta", power_kw |-> 353,
   rated_rpm |-> 3500, dry_weight_kg |-> 900, fuel |-> S_diesel, length_mm |-> 1290,
   width_mm |-> 750, height_mm |-> 900, price_usd_est |-> 75000],
  [engine_model |-> "D8-600", manufacturer |-> "Volvo Penta", power_kw |-> 441,
   rated_rpm |-> 3000, dry_weight_kg |-> 1200, fuel |-> S_diesel, length_mm |-> 1500,
   width_mm |-> 850, height_mm |-> 980, price_usd_est |-> 98000],
  [engine_model |-> "C12.9", manufacturer |-> "Caterpillar", power_kw |-> 745,
   rated_rpm |-> 2300, dry_weight_kg |-> 1550, fuel |-> S_diesel, length_mm |-> 1700,
   width_mm |-> 900, height_mm |-> 1200, price_usd_est |-> 165000],
  [engine_model |-> "QSB6.7", manufacturer |-> "Cummins", power_kw |-> 410,
   rated_rpm |-> 3000, dry_weight_kg |-> 650, fuel |-> S_diesel, length_mm |-> 1200,
   width_mm |-> 700, height_mm |-> 900, price_usd_est |-> 65000],
  [engine_model |-> "QSC8.3", manufacturer |-> "Cummins", power_kw |-> 600,
   rated_rpm |-> 2600, dry_weight_kg |-> 950, fuel |-> S_diesel, length_mm |-> 1350,
   width_mm |-> 760, height_mm |-> 980, price_usd_est |-> 92000],
  [engine_model |-> "6LY-440", manufacturer |-> "Yanmar", power_kw |-> 324,
   rated_rpm |-> 3300, dry_weight_kg |-> 620, fuel |-> S_diesel, length_mm |-> 1100,
   width_mm |-> 650, height_mm |-> 820, price_usd_est |-> 52000],
  [engine_model |-> "12V2000", manufacturer |-> "MTU", power_kw |-> 1200,
   rated_rpm |-> 2450, dry_weight_kg |-> 2300, fuel |-> S_diesel, length_mm |-> 2300,
   width_mm |-> 1100, height_mm |-> 1400, price_usd_est |-> 300000],
  [engine_model |-> "8V2000", manufacturer |-> "MTU", power_kw |-> 900,
   rated_rpm |-> 2450, dry_weight_kg |-> 1900, fuel |-> S_diesel, length_mm |-> 2100,
   width_mm |-> 1050, height_mm |-> 1350, price_usd_est |-> 240000] >>

GEARBOX_CATALOG == <<
  [name |-> "ZF 45A",
   ratio_options |-> <<Lit(15, 1), Lit(175, 2), Lit(20, 1), Lit(25, 1), Lit(30, 1)>>,
   max_input_kw_est |-> 600, max_input_rpm |-> 3500, price_usd_est |-> 18000],
  [name |-> "ZF 63A",
   ratio_options |-> <<Lit(15, 1), Lit(175, 2), Lit(20, 1), Lit(25, 1), Lit(30, 1), Lit(35, 1)>>,
   max_input_kw_est |-> 1000, max_input_rpm |-> 3000, price_usd_est |-> 30000],
  [name |-> "Twin Disc MGX",
   ratio_options |-> <<Lit(15, 1), Lit(20, 1), Lit(25, 1), Lit(30, 1), Lit(35, 1), Lit(40, 1)>>,
   max_input_kw_est |-> 1200, max_input_rpm |-> 3500, price_usd_est |-> 35000] >>

----------------------------------------------------------------------------
(* 2) Inputs + helper functions                                            *)

\* What a call produced: a returned value, or a raised exception.
Return(v) == [raised |-> FALSE, exc |-> "", value |-> v]

Raise(e) == [raised |-> TRUE, exc |-> e, value |-> None]

kw_to_hp(kw) == FMul(kw, Lit(134102209, 8))

hp_to_kw(hp) == FDiv(hp, Lit(134102209, 8))

admiralty_C == Lit(1300, 1)

crouch_C == Lit(1850, 1)

\* D ** (2/3), on the displacements whose cube root is a whole number: there
\* the power is rational and is taken exactly.
Pow23(D) ==
  LET n == FInt(D)
      r == CHOOSE r \in 0..n : r * r * r = n
  IN  FromInt(r * r)

\* V ** 3
Cube(V) == FMul(FMul(V, V), V)

\* Displacement estimate (HP), Admiralty style.
hp_disp(D, V) == FDiv(FMul(Pow23(D), Cube(V)), admiralty_C)

\* Planing estimate (HP), Crouch style.
hp_plan(D, V) ==
  LET W_lb == FMul(D, Lit(220462, 2))
      r    == FDiv(V, crouch_C)
  IN  FMul(W_lb, FMul(r, r))

\* The names the estimator takes for the semi-displacement class.
SemiNames == {S_semi_displacement, S_semi, S_semi_space_displacement}

\* EstimatorHull without lower(): hull names compared as typed.
EstimatorHull_CaseSensitive(hull_type) == StrStrip(hull_type)

\* hull = spec.hull_type.strip().lower()
EstimatorHull(hull_type) == StrLower(StrStrip(hull_type))

\* BlendFactor without min and max: the blend extrapolates.
BlendFactor_Unclamped(V) == FDiv(FSub(V, FromInt(12)), FromInt(30 - 12))

\* t = min(max((V - 12) / (30 - 12), 0.0), 1.0)
BlendFactor(V) ==
  FMin(FMax(FDiv(FSub(V, FromInt(12)), FromInt(30 - 12)), Lit(0, 1)), Lit(10, 1))

\* hp = (1 - t) * hp_disp + t * hp_plan
Blend(t, hd, hpl) == FAdd(FMul(FSub(FromInt(1), t), hd), FMul(t, hpl))

estimate_total_power_kw(spec) ==
  LET D    == spec.displacement_tonnes
      V    == spec.target_speed_kn
      hull == EstimatorHull(spec.hull_type)
  IN  IF hull = S_displacement THEN Return(hp_to_kw(hp_disp(D, V)))
      ELSE IF hull = S_planing THEN Return(hp_to_kw(hp_plan(D, V)))
      ELSE IF hull \in SemiNames
           THEN Return(hp_to_kw(Blend(BlendFactor(V), hp_disp(D, V), hp_plan(D, V))))
      ELSE Raise("ValueError")

\* hull = spec.hull_type.lower()
HeuristicHull(hull_type) == StrLower(hull_type)

\* The (hull class, displacement bucket) lookup, and its default.
RpmLookup(hull, D) ==
  IF hull = S_displacement THEN (IF FLt(D, FromInt(30)) THEN 900 ELSE 750)
  ELSE IF hull \in SemiNames THEN (IF FLt(D, FromInt(30)) THEN 1100 ELSE 950)
  ELSE IF hull = S_planing THEN (IF FLt(D, FromInt(30)) THEN 1300 ELSE 1150)
  ELSE 1000

\* choose_target_prop_rpm without its first two lines: the lookup alone.
choose_target_prop_rpm_LookupOnly(spec) ==
  RpmLookup(HeuristicHull(spec.hull_type), spec.displacement_tonnes)

choose_target_prop_rpm(spec) ==
  IF spec.desired_prop_rpm # None THEN spec.desired_prop_rpm[1]
  ELSE RpmLookup(HeuristicHull(spec.hull_type), spec.displacement_tonnes)

\* min(options, key=...) scans left to right and keeps the first least key.
RECURSIVE MinScan(_, _, _, _)
MinScan(ratio, options, i, best) ==
  IF i > Len(options) THEN best
  ELSE IF FLt(FAbs(FSub(options[i], ratio)), FAbs(FSub(best, ratio)))
       THEN MinScan(ratio, options, i + 1, options[i])
       ELSE MinScan(ratio, options, i + 1, best)

\* nearest_ratio keeping the last least key rather than the first.
nearest_ratio_LastLeast(ratio, options) ==
  LET off == [k \in 1..Len(options) |-> FAbs(FSub(options[k], ratio))]
      last == CHOOSE k \in 1..Len(options) :
                /\ \A m \in 1..Len(options) : ~FLt(off[m], off[k])
                /\ \A m \in (k + 1)..Len(options) : FLt(off[k], off[m])
  IN  options[last]

nearest_ratio(ratio, options) == MinScan(ratio, options, 2, options[1])

\* EngineMatches with > for >= on rated power.
EngineMatches_Strict(e, spec, per_shaft_kw_req) ==
  /\ StrLower(e.fuel) = StrLower(spec.fuel)
  /\ FLt(per_shaft_kw_req, FromInt(e.power_kw))
  /\ e.length_mm <= spec.max_engine_length_mm
  /\ FLe(FromInt(e.dry_weight_kg), spec.max_engine_weight_kg)
  /\ FLe(FromInt(e.price_usd_est), spec.budget_usd)

\* The five conditions of the engine filter.
EngineMatches(e, spec, per_shaft_kw_req) ==
  /\ StrLower(e.fuel) = StrLower(spec.fuel)
  /\ FLe(per_shaft_kw_req, FromInt(e.power_kw))
  /\ e.length_mm <= spec.max_engine_length_mm
  /\ FLe(FromInt(e.dry_weight_kg), spec.max_engine_weight_kg)
  /\ FLe(FromInt(e.price_usd_est), spec.budget_usd)

\* GearboxTakes without the test of the rated RPM.
GearboxTakes_PowerOnly(e, gb) == ~(e.power_kw > gb.max_input_kw_est)

\* The gearbox loop goes on past a gearbox that fails this.
GearboxTakes(e, gb) ==
  ~(e.power_kw > gb.max_input_kw_est \/ e.rated_rpm > gb.max_input_rpm)

\* power_margin_pct = (engine_kw - per_shaft_kw_req) / per_shaft_kw_req
PowerMargin(engine_kw, per_shaft_kw_req) ==
  FDiv(FSub(engine_kw, per_shaft_kw_req), per_shaft_kw_req)

Score(power_margin_pct, ratio_error, total_price_est, budget_usd) ==
  FSub(FSub(FMul(Lit(55, 2), FMin(power_margin_pct, Lit(10, 1))),
            FMul(Lit(35, 2), ratio_error)),
       FMul(Lit(10, 2), FDiv(total_price_est, FMax(budget_usd, Lit(10, 1)))))

\* One pass of the inner loop for engine i and gearbox j of the catalogs: the
\* row appended, with the loop's local power_margin_pct beside it.
Pairing(i, j, spec, per_shaft_kw_req, target_prop_rpm) ==
  LET e  == ENGINE_CATALOG[i]
      gb == GEARBOX_CATALOG[j]
      engine_kw   == FromInt(e.power_kw)
      engine_rpm  == FromInt(e.rated_rpm)
      ideal_ratio == FDiv(engine_rpm, FromInt(target_prop_rpm))
      chosen_ratio      == nearest_ratio(ideal_ratio, gb.ratio_options)
      achieved_prop_rpm == FDiv(engine_rpm, chosen_ratio)
      power_margin_pct  == PowerMargin(engine_kw, per_shaft_kw_req)
      ratio_error       == FDiv(FAbs(FSub(chosen_ratio, ideal_ratio)), ideal_ratio)
      total_price_est   == FAdd(FromInt(e.price_usd_est), FromInt(gb.price_usd_est))
  IN  [engine |-> e.manufacturer \o " " \o e.engine_model,
       engine_power_kw |-> FRound(engine_kw, 1),
       engine_power_hp |-> FRound(kw_to_hp(engine_kw), 0),
       engine_rated_rpm |-> FInt(engine_rpm),
       engine_weight_kg |-> e.dry_weight_kg,
       engine_length_mm |-> e.length_mm,
       gearbox |-> gb.name,
       gear_ratio |-> chosen_ratio,
       target_prop_rpm |-> target_prop_rpm,
       achieved_prop_rpm |-> FInt(FRound(achieved_prop_rpm, 0)),
       per_shaft_kw_required |-> FRound(per_shaft_kw_req, 1),
       power_margin_pct |-> FRound(FMul(FromInt(100), power_margin_pct), 1),
       price_est_usd |-> FInt(FRound(total_price_est, 0)),
       score |-> Score(power_margin_pct, ratio_error, total_price_est,
                       spec.budget_usd),
       local_power_margin_pct |-> power_margin_pct]

\* The (engine, gearbox) index pairs in the order the two loops visit them.
LoopOrder ==
  [k \in 1..(Len(ENGINE_CATALOG) * Len(GEARBOX_CATALOG)) |->
     <<((k - 1) \div Len(GEARBOX_CATALOG)) + 1,
       ((k - 1) % Len(GEARBOX_CATALOG)) + 1>>]

RECURSIVE Rows(_, _, _, _)
Rows(pairs, spec, per_shaft_kw_req, target_prop_rpm) ==
  IF pairs = <<>> THEN <<>>
  ELSE <<Pairing(pairs[1][1], pairs[1][2], spec, per_shaft_kw_req,
                 target_prop_rpm)>>
       \o Rows(Tail(pairs), spec, per_shaft_kw_req, target_prop_rpm)

\* rows with row r put behind every row whose score is not below r's.
RECURSIVE InsertDesc(_, _)
InsertDesc(rows, r) ==
  IF rows = <<>> THEN <<r>>
  ELSE IF FLt(rows[1].score, r.score) THEN <<r>> \o rows
  ELSE <<rows[1]>> \o InsertDesc(Tail(rows), r)

RECURSIVE SortedDesc(_)
SortedDesc(rows) ==
  IF rows = <<>> THEN <<>>
  ELSE InsertDesc(SortedDesc(SubSeq(rows, 1, Len(rows) - 1)), rows[Len(rows)])

Reorderings(rows) ==
  IF Len(rows) = 1 THEN {rows}
  ELSE {[k \in 1..Len(rows) |-> rows[p[k]]] : p \in Permutations(1..Len(rows))}

\* Every order of a descending sequence that permutes only rows of one score.
RECURSIVE TieOrders(_)
TieOrders(rows) ==
  IF rows = <<>> THEN {<<>>}
  ELSE LET n == Cardinality({k \in 1..Len(rows) : rows[k].score = rows[1].score})
       IN  {a \o b : a \in Reorderings(SubSeq(rows, 1, n)),
                     b \in TieOrders(SubSeq(rows, n + 1, Len(rows)))}

\* out.sort_values("score", ascending=False): pandas sorts one column with
\* kind="quicksort", which is not a stable sort, so rows of equal score may
\* come out in any order.
sort_values(rows) == TieOrders(SortedDesc(rows))

\* The tuple a call returns: the table (the ranked rows, or one status row),
\* the four power figures, and the locals engines_f and rows for reference.
Result(status, table, total_kw, total_kw_with_margin, per_shaft_kw_req, target_prop_rpm, engines_f, rows) ==
  Return([status |-> status, table |-> table, total_kw |-> total_kw,
          total_kw_with_margin |-> total_kw_with_margin,
          per_shaft_kw_req |-> per_shaft_kw_req,
          target_prop_rpm |-> target_prop_rpm,
          engines_f |-> engines_f, rows |-> rows])

NoEngineStatus == "No engine matches found with current constraints."

NoGearboxStatus == "Engines matched, but no gearbox matched power/rpm constraints."

NoEngineHint ==
  "Increase budget/space limits, reduce margin, add more engines to catalog, or lower target speed."

NoGearboxHint == "Add gearbox models to catalog or raise gearbox limits."

\* engines_f: the catalog indices the filter keeps, in catalog order.
FilterEngines(spec, per_shaft_kw_req) ==
  SelectSeq([i \in 1..Len(ENGINE_CATALOG) |-> i],
            LAMBDA i : EngineMatches(ENGINE_CATALOG[i], spec, per_shaft_kw_req))

\* The (engine, gearbox) pairs the nested loops do not skip, in loop order.
CompatiblePairs(engines_f) ==
  SelectSeq(LoopOrder,
            LAMBDA p : /\ \E k \in 1..Len(engines_f) : engines_f[k] = p[1]
                       /\ GearboxTakes(ENGINE_CATALOG[p[1]], GEARBOX_CATALOG[p[2]]))

\* The end of select_propulsion: the table is sorted and returned.
RankRows(total_kw, total_kw_with_margin, per_shaft_kw_req, target_prop_rpm, engines_f, rows) ==
  {Result("ranked", out, total_kw, total_kw_with_margin, per_shaft_kw_req,
          target_prop_rpm, engines_f, rows) : out \in sort_values(rows)}

\* The nested loops of select_propulsion and what follows them.
PairEngines(spec, total_kw, total_kw_with_margin, per_shaft_kw_req, target_prop_rpm, engines_f, pairs) ==
  IF target_prop_rpm = 0 THEN {Raise("ZeroDivisionError")}
  ELSE IF pairs # <<>> /\ per_shaft_kw_req = Zero
       THEN {Raise("ZeroDivisionError")}
  ELSE IF pairs = <<>>
  THEN {Result(NoGearboxStatus,
               <<[status |-> NoGearboxStatus, hint |-> NoGearboxHint]>>,
               total_kw, total_kw_with_margin, per_shaft_kw_req,
               target_prop_rpm, engines_f, <<>>)}
  ELSE RankRows(total_kw, total_kw_with_margin, per_shaft_kw_req,
                target_prop_rpm, engines_f,
                Rows(pairs, spec, per_shaft_kw_req, target_prop_rpm))

\* AfterFilter without the return on an empty engines_f.
AfterFilter_NoEarlyReturn(spec, total_kw, total_kw_with_margin, per_shaft_kw_req, target_prop_rpm, engines_f) ==
  PairEngines(spec, total_kw, total_kw_with_margin, per_shaft_kw_req,
              target_prop_rpm, engines_f, CompatiblePairs(engines_f))

\* select_propulsion once the engines are filtered.
AfterFilter(spec, total_kw, total_kw_with_margin, per_shaft_kw_req, target_prop_rpm, engines_f) ==
  IF engines_f = <<>>
  THEN {Result(NoEngineStatus,
               <<[status |-> NoEngineStatus,
                  total_required_kw_est |-> FRound(total_kw, 1),
                  per_shaft_kw_required_with_margin |->
                    FRound(per_shaft_kw_req, 1),
                  hint |-> NoEngineHint]>>,
               total_kw, total_kw_with_margin, per_shaft_kw_req,
               target_prop_rpm, engines_f, <<>>)}
  ELSE PairEngines(spec, total_kw, total_kw_with_margin, per_shaft_kw_req,
                   target_prop_rpm, engines_f, CompatiblePairs(engines_f))

\* select_propulsion once the four figures are computed.
AfterFigures(spec, total_kw, total_kw_with_margin, per_shaft_kw_req, target_prop_rpm) ==
  AfterFilter(spec, total_kw, total_kw_with_margin, per_shaft_kw_req,
              target_prop_rpm, FilterEngines(spec, per_shaft_kw_req))

\* total_kw_with_margin = total_kw * (1.0 + spec.power_margin)
WithMargin(total_kw, power_margin) ==
  FMul(total_kw, FAdd(Lit(10, 1), power_margin))

\* select_propulsion once the estimator has returned total_kw.
AfterEstimate(spec, total_kw, total_kw_with_margin) ==
  IF spec.shafts = 0 THEN {Raise("ZeroDivisionError")}
  ELSE AfterFigures(spec, total_kw, total_kw_with_margin,
                    FDiv(total_kw_with_margin, FromInt(spec.shafts)),
                    choose_target_prop_rpm(spec))

\* What the estimator's outcome makes of select_propulsion.
OnEstimate(spec, est) ==
  IF est.raised THEN {est}
  ELSE AfterEstimate(spec, est.value, WithMargin(est.value, spec.power_margin))

\* The outcomes of select_propulsion(spec): one, but for the order of rows of
\* equal score.
select_propulsion(spec) == OnEstimate(spec, estimate_total_power_kw(spec))

\* BoatSpecs(hull_type, displacement_tonnes, target_speed_kn, shafts) with the
\* dataclass's defaults for the other fields.
BoatSpecs(hull_type, displacement_tonnes, target_speed_kn, shafts) ==
  [hull_type |-> hull_type,
   displacement_tonnes |-> displacement_tonnes,
   target_speed_kn |-> target_speed_kn,
   shafts |-> shafts,
   fuel |-> S_diesel,
   budget_usd |-> FromInt(10^9),
   max_engine_length_mm |-> 10^9,
   max_engine_weight_kg |-> FromInt(10^9),
   desired_prop_rpm |-> None,
   power_margin |-> Lit(15, 2)]

----------------------------------------------------------------------------
(* The specifications the calls are made with                              *)

\* Displacements are the cubes 0, 1, 8, ... MaxCubeRoot^3 tonnes; speeds are
\* 0, 6, 12, ... 6 * MaxSpeedStep knots; shaft counts are 0 .. MaxShafts.
MaxCubeRoot == 4

MaxSpeedStep == 6

MaxShafts == 3

H_Displacement == <<"D", "i", "s", "p", "l", "a", "c", "e", "m", "e", "n", "t">>

H_DISPLACEMENT == <<"D", "I", "S", "P", "L", "A", "C", "E", "M", "E", "N", "T">>

H_Planing == <<"P", "l", "a", "n", "i", "n", "g">>

H_PLANING == <<"P", "L", "A", "N", "I", "N", "G">>

H_Semi_Displacement == <<"S", "e", "m", "i", "-", "D", "i", "s", "p", "l", "a", "c", "e", "m", "e", "n", "t">>

H_SEMI == <<"S", "E", "M", "I">>

H_planing_led == <<" ", "p", "l", "a", "n", "i", "n", "g">>

H_displacement_trailed == <<"d", "i", "s", "p", "l", "a", "c", "e", "m", "e", "n", "t", " ">>

H_Semi_padded == <<" ", "S", "e", "m", "i", " ">>

H_hovercraft == <<"h", "o", "v", "e", "r", "c", "r", "a", "f", "t">>

H_Hovercraft == <<"H", "o", "v", "e", "r", "c", "r", "a", "f", "t">>

H_empty == <<>>

F_Diesel == <<"D", "i", "e", "s", "e", "l">>

F_DIESEL == <<"D", "I", "E", "S", "E", "L">>

F_petrol == <<"p", "e", "t", "r", "o", "l">>

CanonicalHulls == {S_displacement, S_semi_displacement, S_planing}

HullStrings ==
  CanonicalHulls \cup
  {S_semi, S_semi_space_displacement, H_Displacement, H_DISPLACEMENT, H_Planing,
   H_PLANING, H_Semi_Displacement, H_SEMI, H_planing_led,
   H_displacement_trailed, H_Semi_padded, H_hovercraft, H_Hovercraft, H_empty}

Displacements == {FromInt(r * r * r) : r \in 0..MaxCubeRoot}

Speeds == {FromInt(6 * k) : k \in 0..MaxSpeedStep}

\* With this margin the per-shaft requirement of some hulls is an engine's
\* rated power to the last digit.
EdgeMargin == Lit(12096754, 8)

Margins == {Lit(-1, 1), Zero, Lit(15, 2), EdgeMargin}

\* Every hull string at every displacement and speed, other fields default.
HullSpecs ==
  {BoatSpecs(h, D, V, 2) : h \in HullStrings, D \in Displacements, V \in Speeds}

\* Shaft counts and margins, valid and not.
ShaftSpecs ==
  {[BoatSpecs(h, FromInt(D), FromInt(V), s) EXCEPT !.power_margin = m] :
     h \in {S_displacement, S_planing}, D \in {8, 64}, V \in {18, 36},
     s \in 0..MaxShafts, m \in Margins}

\* The limits of the engine filter, at, below and above catalog values.
FilterSpecs ==
  {[BoatSpecs(S_semi_displacement, FromInt(64), FromInt(18), 2)
      EXCEPT !.fuel = f, !.budget_usd = FromInt(b),
             !.max_engine_length_mm = l, !.max_engine_weight_kg = FromInt(w)] :
     f \in {S_diesel, F_Diesel, F_DIESEL, F_petrol},
     b \in {1000, 98000, 250000, 10^9},
     l \in {1200, 1500, 1800, 10^9},
     w \in {650, 1800, 10^9}}

\* A desired propeller RPM, for known and unknown hull classes.
RpmSpecs ==
  {[BoatSpecs(h, D, FromInt(18), 2) EXCEPT !.desired_prop_rpm = Some(r)] :
     h \in {S_displacement, S_semi, H_Planing, H_planing_led, H_hovercraft},
     D \in Displacements, r \in {750, 1000, 1600}}

\* A budget so large that the price term of the score is lost in rounding,
\* with the length limit leaving one or two engines.
OpenBudgetSpecs ==
  {[BoatSpecs(S_planing, FromInt(8), FromInt(18), 2)
      EXCEPT !.budget_usd = [m |-> 10^8, e |-> 22],
             !.max_engine_length_mm = l, !.desired_prop_rpm = Some(r)] :
     l \in {1100, 1200}, r \in {1000, 1100}}

Specs == HullSpecs \cup ShaftSpecs \cup FilterSpecs \cup RpmSpecs \cup OpenBudgetSpecs

----------------------------------------------------------------------------
(* The state machine: one call of one of the three functions on one        *)
(* specification.                                                          *)

VARIABLES
  spec,   \* the BoatSpecs the call is made with
  call,   \* the function called, "none" before the call
  ret     \* what the call returned or raised

vars == <<spec, call, ret>>

Init ==
  /\ spec \in Specs
  /\ call = "none"
  /\ ret = Return(None)

CallEstimate ==
  /\ call = "none"
  /\ call' = "estimate_total_power_kw"
  /\ ret' = estimate_total_power_kw(spec)
  /\ UNCHANGED spec

CallChooseRpm ==
  /\ call = "none"
  /\ call' = "choose_target_prop_rpm"
  /\ ret' = Return(choose_target_prop_rpm(spec))
  /\ UNCHANGED spec

CallSelect ==
  /\ call = "none"
  /\ call' = "select_propulsion"
  /\ ret' \in select_propulsion(spec)
  /\ UNCHANGED spec

Next == CallEstimate \/ CallChooseRpm \/ CallSelect

Spec == Init /\ [][Next]_vars

----------------------------------------------------------------------------
(* Properties of the three functions, stated over the call made and what   *)
(* it returned.                                                            *)

Selected == call = "select_propulsion"

Estimated == call = "estimate_total_power_kw"

Chosen == call = "choose_target_prop_rpm"

\* The hull-class names the estimator compares with.
HullNames == {S_displacement, S_planing} \cup SemiNames

\* a and b are the same string but for the case of their letters.
SameButCase(a, b) ==
  /\ Len(a) = Len(b)
  /\ \A k \in 1..Len(a) : LowerChar(a[k]) = LowerChar(b[k])

\* Out of domain: displacement <= 0, speed <= 0, shafts < 1 or margin < 0.
OutOfDomain(s) ==
  \/ FLe(s.displacement_tonnes, Zero)
  \/ FLe(s.target_speed_kn, Zero)
  \/ s.shafts < 1
  \/ FLt(s.power_margin, Zero)

\* A valid specification: in domain, with a hull class the estimator knows.
Valid(s) ==
  /\ ~OutOfDomain(s)
  /\ StrLower(StrStrip(s.hull_type)) \in HullNames

\* The name a row gives the engine of a catalog record.
EngineName(e) == e.manufacturer \o " " \o e.engine_model

\* The rows of the table a call of select_propulsion returned, none when it
\* raised or returned a status row.
Ranked ==
  IF Selected /\ ~ret.raised /\ ret.value.status = "ranked"
  THEN ret.value.table ELSE <<>>

\* C1: for every specification with displacement <= 0, speed <= 0, shafts < 1
\* or margin < 0, select_propulsion raises the invalid-input error (the
\* program's ValueError) and returns no table and no power figures.
C1_OutOfDomainRejected ==
  (Selected /\ OutOfDomain(spec)) => (ret.raised /\ ret.exc = "ValueError")

\* C2: every case variant of a hull-class name is accepted, by the estimator
\* and by select_propulsion, with the power estimate of the lower-case name;
\* a hull class that is none of the names makes both raise ValueError.
C2_HullCaseInsensitive ==
  /\ \A n \in HullNames :
       SameButCase(spec.hull_type, n) =>
         LET lower == estimate_total_power_kw([spec EXCEPT !.hull_type = n])
         IN  /\ Estimated => (~ret.raised /\ ret = lower)
             /\ Selected => /\ ~(ret.raised /\ ret.exc = "ValueError")
                            /\ ~ret.raised => ret.value.total_kw = lower.value
  /\ StrLower(StrStrip(spec.hull_type)) \notin HullNames =>
       ((Estimated \/ Selected) => (ret.raised /\ ret.exc = "ValueError"))

\* A mixed-case hull class was accepted and its candidates ranked.
C2_Witness ==
  /\ Selected /\ spec.hull_type = H_Displacement
  /\ ~ret.raised /\ ret.value.status = "ranked"
  /\ ret.value.total_kw # Zero

\* The five conditions of C3, for engine record e.
C3_Conditions(e, s, per_shaft) ==
  /\ SameButCase(e.fuel, s.fuel)
  /\ ~FLt(FromInt(e.power_kw), per_shaft)
  /\ ~(e.length_mm > s.max_engine_length_mm)
  /\ ~FLt(s.max_engine_weight_kg, FromInt(e.dry_weight_kg))
  /\ ~FLt(s.budget_usd, FromInt(e.price_usd_est))

\* C3: for a valid specification the filtered engines are exactly the catalog
\* engines meeting the five conditions, every comparison inclusive; a paired
\* engine whose rated power equals the per-shaft requirement has a
\* power-margin fraction of exactly 0.
C3_FilterExactInclusive ==
  (Selected /\ Valid(spec)) =>
    /\ ~ret.raised
    /\ \A i \in 1..Len(ENGINE_CATALOG) :
         (\E k \in 1..Len(ret.value.engines_f) : ret.value.engines_f[k] = i)
           <=> C3_Conditions(ENGINE_CATALOG[i], spec, ret.value.per_shaft_kw_req)
    /\ \A k \in 1..Len(ret.value.rows) :
         ret.value.rows[k].engine_power_kw = ret.value.per_shaft_kw_req =>
           ret.value.rows[k].local_power_margin_pct = Zero

\* An engine exactly at the per-shaft requirement was kept and paired, while
\* other engines were filtered out.
C3_Witness ==
  /\ Selected /\ Valid(spec) /\ ~ret.raised
  /\ Len(ret.value.engines_f) < Len(ENGINE_CATALOG)
  /\ \E k \in 1..Len(ret.value.rows) :
       /\ ret.value.rows[k].engine_power_kw = ret.value.per_shaft_kw_req
       /\ ret.value.rows[k].local_power_margin_pct = Zero

\* The gearbox limits of C4: the gearbox tolerates the engine's output.
C4_Limits(e, gb) ==
  gb.max_input_kw_est >= e.power_kw /\ gb.max_input_rpm >= e.rated_rpm

\* The number of rows of the returned table for engine e and gearbox gb.
C4_RowsOf(e, gb) ==
  Cardinality({k \in 1..Len(Ranked) :
                 Ranked[k].engine = EngineName(e) /\ Ranked[k].gearbox = gb.name})

C4_Filtered(i) ==
  \E k \in 1..Len(ret.value.engines_f) : ret.value.engines_f[k] = i

\* C4: when the filtered engine set is not empty, the returned table holds
\* exactly one row for each (filtered engine, gearbox) pair within the gearbox
\* limits and none for any other pair; a valid call raises nothing.
C4_PairingsExact ==
  /\ (Selected /\ Valid(spec)) => ~ret.raised
  /\ (Selected /\ ~ret.raised /\ ret.value.engines_f # <<>>) =>
       /\ \A i \in 1..Len(ENGINE_CATALOG), j \in 1..Len(GEARBOX_CATALOG) :
            C4_RowsOf(ENGINE_CATALOG[i], GEARBOX_CATALOG[j]) =
              IF C4_Filtered(i) /\ C4_Limits(ENGINE_CATALOG[i], GEARBOX_CATALOG[j])
              THEN 1 ELSE 0
       /\ Len(Ranked) =
            Cardinality({p \in (1..Len(ENGINE_CATALOG)) \X (1..Len(GEARBOX_CATALOG)) :
                           /\ C4_Filtered(p[1])
                           /\ C4_Limits(ENGINE_CATALOG[p[1]], GEARBOX_CATALOG[p[2]])})

\* A filtered engine was paired with one gearbox and skipped for another,
\* one for its power and one for its speed.
C4_Witness ==
  /\ Selected /\ Valid(spec) /\ ~ret.raised /\ Len(Ranked) > 0
  /\ \E i \in 1..Len(ENGINE_CATALOG), j \in 1..Len(GEARBOX_CATALOG) :
       /\ C4_Filtered(i)
       /\ GEARBOX_CATALOG[j].max_input_kw_est < ENGINE_CATALOG[i].power_kw
       /\ C4_RowsOf(ENGINE_CATALOG[i], GEARBOX_CATALOG[j]) = 0
  /\ \E i \in 1..Len(ENGINE_CATALOG), j \in 1..Len(GEARBOX_CATALOG) :
       /\ C4_Filtered(i)
       /\ GEARBOX_CATALOG[j].max_input_kw_est >= ENGINE_CATALOG[i].power_kw
       /\ GEARBOX_CATALOG[j].max_input_rpm < ENGINE_CATALOG[i].rated_rpm
       /\ C4_RowsOf(ENGINE_CATALOG[i], GEARBOX_CATALOG[j]) = 0

\* The ideal ratio of a row: engine rated RPM / target propeller RPM.
C5_Ideal(r) == FDiv(FromInt(r.engine_rated_rpm), FromInt(r.target_prop_rpm))

\* The absolute differences of the ratios of a list to the ideal ratio.
C5_Off(options, ideal) ==
  [k \in 1..Len(options) |-> FAbs(FSub(options[k], ideal))]

\* The ratio list of the gearbox of row r.
C5_Options(r) ==
  LET j == CHOOSE j \in 1..Len(GEARBOX_CATALOG) : GEARBOX_CATALOG[j].name = r.gearbox
  IN  GEARBOX_CATALOG[j].ratio_options

\* C5: the gear ratio of every returned row is in its gearbox's ratio list,
\* no ratio of the list is strictly nearer the ideal ratio, and every ratio
\* before it in the list is strictly farther.
C5_NearestRatioFirst ==
  \A n \in 1..Len(Ranked) :
    LET options == C5_Options(Ranked[n])
        off == C5_Off(options, C5_Ideal(Ranked[n]))
    IN  \E k \in 1..Len(options) :
          /\ options[k] = Ranked[n].gear_ratio
          /\ \A m \in 1..Len(options) : ~FLt(off[m], off[k])
          /\ \A m \in 1..(k - 1) : FLt(off[k], off[m])

\* A returned row whose ideal ratio lies midway between two ratios of the
\* list: the earlier one was chosen.
C5_Witness ==
  \E n \in 1..Len(Ranked) :
    LET options == C5_Options(Ranked[n])
        off == C5_Off(options, C5_Ideal(Ranked[n]))
    IN  \E k, m \in 1..Len(options) :
          /\ k < m
          /\ options[k] = Ranked[n].gear_ratio
          /\ off[m] = off[k]

\* The place of row r's (engine, gearbox) pair in the order of the two loops.
C6_Enumerated(r) ==
  CHOOSE k \in 1..Len(LoopOrder) :
    /\ EngineName(ENGINE_CATALOG[LoopOrder[k][1]]) = r.engine
    /\ GEARBOX_CATALOG[LoopOrder[k][2]].name = r.gearbox

\* C6: the returned table is non-increasing in score, and rows of equal score
\* stand in enumeration order: engine catalog order, then gearbox catalog
\* order.
C6_SortedStable ==
  \A a, b \in 1..Len(Ranked) :
    a < b =>
      /\ ~FLt(Ranked[a].score, Ranked[b].score)
      /\ Ranked[a].score = Ranked[b].score =>
           C6_Enumerated(Ranked[a]) < C6_Enumerated(Ranked[b])

\* Some filtered engine has a gearbox within the gearbox limits.
C7_SomePair ==
  \E i \in 1..Len(ENGINE_CATALOG), j \in 1..Len(GEARBOX_CATALOG) :
    C4_Filtered(i) /\ C4_Limits(ENGINE_CATALOG[i], GEARBOX_CATALOG[j])

C8_DesiredRpmWins ==
  spec.desired_prop_rpm # None =>
    /\ Chosen => ret = Return(spec.desired_prop_rpm[1])
    /\ (Selected /\ ~ret.raised) =>
         /\ ret.value.target_prop_rpm = spec.desired_prop_rpm[1]
         /\ \A k \in 1..Len(Ranked) :
              Ranked[k].target_prop_rpm = spec.desired_prop_rpm[1]

\* select_propulsion returned a desired RPM that the lookup would not give.
C8_Witness ==
  /\ Selected /\ ~ret.raised /\ Len(Ranked) > 0
  /\ spec.desired_prop_rpm = Some(1600)
  /\ ret.value.target_prop_rpm = 1600
  /\ RpmLookup(StrLower(spec.hull_type), spec.displacement_tonnes) = 900

\* The specification is for a semi-displacement hull of displacement > 0.
C9_Semi ==
  /\ StrLower(StrStrip(spec.hull_type)) \in SemiNames
  /\ FLt(Zero, spec.displacement_tonnes)

\* C9: for a semi-displacement hull with D > 0 the estimate is the pure
\* displacement estimate for the same D, V when V <= 12, the pure planing
\* estimate when V >= 30, and the blend with t = (V - 12) / 18 in between.
C9_BlendClamped ==
  (Estimated /\ C9_Semi) =>
    LET D == spec.displacement_tonnes
        V == spec.target_speed_kn
    IN  IF FLe(V, FromInt(12))
        THEN ret = estimate_total_power_kw([spec EXCEPT !.hull_type = S_displacement])
        ELSE IF FLe(FromInt(30), V)
        THEN ret = estimate_total_power_kw([spec EXCEPT !.hull_type = S_planing])
        ELSE ret = Return(hp_to_kw(Blend(FDiv(FSub(V, FromInt(12)), FromInt(18)),
                                         hp_disp(D, V), hp_plan(D, V))))

\* Above 30 kn the semi-displacement estimate was the planing estimate, which
\* the displacement estimate is not.
C9_Witness ==
  /\ Estimated /\ C9_Semi
  /\ FLt(FromInt(30), spec.target_speed_kn)
  /\ ret = estimate_total_power_kw([spec EXCEPT !.hull_type = S_planing])
  /\ ret # estimate_total_power_kw([spec EXCEPT !.hull_type = S_displacement])

\* C10: for every hull-class string the estimator accepts, with no desired
\* RPM, choose_target_prop_rpm and select_propulsion return the lookup value
\* of the hull class the estimator took it for, never the default 1000.
C10_HullClassAgreement ==
  (spec.desired_prop_rpm = None /\ ~estimate_total_power_kw(spec).raised) =>
    LET rpm == RpmLookup(StrLower(StrStrip(spec.hull_type)),
                         spec.displacement_tonnes)
    IN  /\ Chosen => (ret.value = rpm /\ ret.value # 1000)
        /\ (Selected /\ ~ret.raised) =>
             (ret.value.target_prop_rpm = rpm /\ ret.value.target_prop_rpm # 1000)
====
